---- MODULE Spec2Model ----
(***************************************************************************)
(* Model of the tsRustResult toolkit (src/src/tsRustResult.ts).            *)
(*                                                                         *)
(* JavaScript values are records [t, n, s]: t is the type tag, n the       *)
(* number / the boolean (0 or 1) / the heap address of an object, s the    *)
(* contents of a string.  Objects live on a heap (a sequence; the address  *)
(* of an object is its index), so that "the same reference" is equality    *)
(* of addresses and "a copy" is a different address with equal fields.     *)
(* A heap object is [class, f]: class is "Error" for instances of Error,   *)
(* "Object" for object literals and "Bare" for Object.create(null); f maps *)
(* the names of the own properties to their values.                        *)
(***************************************************************************)
EXTENDS Integers, Sequences, FiniteSets, TLC

\* heap:  the objects allocated so far (Results and Errors).
\* last:  the call made last, with its arguments and its outcome.
\* chain: the Result the caller holds and how it was obtained.
\* tasks: the calls of tryResult, pending at the await or settled.
VARIABLES heap, last, chain, tasks

vars == <<heap, last, chain, tasks>>

\* ------------------------------------------------------------------ bounds
MaxNum == 10
MaxChain == 2
MaxTasks == 2
MaxPending == 2

\* ------------------------------------------------------------------ values
Undefined == [t |-> "undefined", n |-> 0, s |-> ""]
Null == [t |-> "null", n |-> 0, s |-> ""]
Bool(b) == [t |-> "boolean", n |-> IF b THEN 1 ELSE 0, s |-> ""]
Num(k) == [t |-> "number", n |-> k, s |-> ""]
Str(x) == [t |-> "string", n |-> 0, s |-> x]
Ref(a) == [t |-> "object", n |-> a, s |-> ""]

\* Truthiness of a value, as `cond ? a : b`, `!x` and `x && y` compute it.
ToBoolean(v) ==
    CASE v.t = "undefined" -> FALSE
      [] v.t = "null" -> FALSE
      [] v.t = "boolean" -> v.n = 1
      [] v.t = "number" -> v.n # 0
      [] v.t = "string" -> v.s # ""
      [] OTHER -> TRUE

\* Property read v.k: an absent property, or a property of a primitive,
\* reads as undefined.
Get(h, v, k) ==
    IF v.t = "object" /\ v.n \in 1..Len(h) /\ k \in DOMAIN h[v.n].f
    THEN h[v.n].f[k]
    ELSE Undefined

\* ------------------------------------------------------- outcomes of calls
\* A call ends by returning val or by throwing val; h is the heap it
\* leaves, inv the arguments of the invocations of the supplied function.
Return(h, v, inv) == [h |-> h, thrown |-> FALSE, val |-> v, inv |-> inv]
Throw(h, v, inv) == [h |-> h, thrown |-> TRUE, val |-> v, inv |-> inv]

\* new Error(message)
NewError(h, message) ==
    Return(Append(h, [class |-> "Error", f |-> ("message" :> Str(message))]),
           Ref(Len(h) + 1), <<>>)

\* ------------------------------------------------- the caller's functions
\* The transforms handed to map and mapErr.  A function is a sequence of
\* base functions applied left to right (a one-element sequence is the
\* base function itself), which gives the compositions x => g(f(x)).
ValueFns == {"double", "square", "toNull", "same", "raiseErr", "raiseStr"}
ErrorFns == {"enhance", "same", "raiseErr", "raiseStr"}
Raising == {"raiseErr", "raiseStr"}

CallBase(h, b, x) ==
    CASE b = "double" -> Return(h, Num(x.n * 2), <<>>)
      [] b = "square" -> Return(h, Num(x.n * x.n), <<>>)
      [] b = "toNull" -> Return(h, Null, <<>>)
      [] b = "same" -> Return(h, x, <<>>)
      [] b = "enhance" -> NewError(h, "Enhanced: " \o Get(h, x, "message").s)
      [] b = "raiseErr" ->
            LET e == NewError(h, "transform failed") IN Throw(e.h, e.val, <<>>)
      [] OTHER -> Throw(h, Str("boom"), <<>>)

RECURSIVE Call(_, _, _)
Call(h, fn, x) ==
    IF fn = <<>> THEN Return(h, x, <<>>)
    ELSE LET o == CallBase(h, Head(fn), x) IN
         IF o.thrown THEN o ELSE Call(o.h, Tail(fn), o.val)

\* The caller's code type-checks: each base function of fn is handed an
\* argument of its parameter type (numbers are kept within MaxNum).  A
\* Result of the other variant fits any function, which then is not run.
AcceptsBase(h, b, x) ==
    CASE b \in {"double", "square"} -> x.t = "number" /\ x.n <= MaxNum
      [] b = "enhance" ->
            x.t = "object" /\ x.n \in 1..Len(h) /\ h[x.n].class = "Error"
      [] OTHER -> TRUE

RECURSIVE Accepts(_, _, _)
Accepts(h, fn, x) ==
    IF fn = <<>> THEN TRUE
    ELSE /\ AcceptsBase(h, Head(fn), x)
         /\ LET o == CallBase(h, Head(fn), x) IN
            o.thrown \/ Accepts(o.h, Tail(fn), o.val)

\* --------------------------------------------------------------- toolkit
\* Faulty variants of the toolkit's functions stand before the function
\* they would replace; the properties below are violated by them.

ok(h, value) ==
    Return(Append(h, [class |-> "Object",
                      f |-> ("ok" :> Bool(TRUE)) @@ ("value" :> value)
                            @@ ("_isResult_" :> Bool(TRUE))]),
           Ref(Len(h) + 1), <<>>)

\* Faulty err: the error is stored under the name `value`.
errAsValue(h, error) ==
    Return(Append(h, [class |-> "Object",
                      f |-> ("ok" :> Bool(FALSE)) @@ ("value" :> error)
                            @@ ("_isResult_" :> Bool(TRUE))]),
           Ref(Len(h) + 1), <<>>)

\* Faulty err: it wraps a copy of the error, new Error(error.message).
errCopy(h, error) ==
    LET e == NewError(h, Get(h, error, "message").s) IN
    Return(Append(e.h, [class |-> "Object",
                        f |-> ("ok" :> Bool(FALSE)) @@ ("error" :> e.val)
                              @@ ("_isResult_" :> Bool(TRUE))]),
           Ref(Len(e.h) + 1), <<>>)

err(h, error) ==
    Return(Append(h, [class |-> "Object",
                      f |-> ("ok" :> Bool(FALSE)) @@ ("error" :> error)
                            @@ ("_isResult_" :> Bool(TRUE))]),
           Ref(Len(h) + 1), <<>>)

\* Faulty isOk: it looks at the payload, `return !!result.value`.
isOkTruthy(h, result) == Return(h, Bool(ToBoolean(Get(h, result, "value"))), <<>>)

isOk(h, result) == Return(h, Get(h, result, "ok"), <<>>)

isErr(h, result) == Return(h, Bool(~ToBoolean(Get(h, result, "ok"))), <<>>)

\* Faulty unwrap: it tests the payload, `if (!result.value) throw ...`.
unwrapTruthy(h, result) ==
    IF ~ToBoolean(Get(h, result, "value"))
    THEN Throw(h, Get(h, result, "error"), <<>>)
    ELSE Return(h, Get(h, result, "value"), <<>>)

\* Faulty unwrap: it throws a new Error made from the message.
unwrapWrapped(h, result) ==
    IF ~ToBoolean(Get(h, result, "ok"))
    THEN LET e == NewError(h, Get(h, Get(h, result, "error"), "message").s)
         IN  Throw(e.h, e.val, <<>>)
    ELSE Return(h, Get(h, result, "value"), <<>>)

unwrap(h, result) ==
    IF ~ToBoolean(Get(h, result, "ok"))
    THEN Throw(h, Get(h, result, "error"), <<>>)
    ELSE Return(h, Get(h, result, "value"), <<>>)

\* Faulty map: it writes fn's result into the Result it was given,
\* `result.value = fn(result.value); return result`.
mapInPlace(h, result, fn) ==
    IF ToBoolean(Get(h, result, "ok"))
    THEN LET x == Get(h, result, "value")
             c == Call(h, fn, x)
         IN  IF c.thrown THEN Throw(c.h, c.val, <<x>>)
             ELSE Return([c.h EXCEPT ![result.n].f["value"] = c.val],
                         result, <<x>>)
    ELSE Return(h, result, <<>>)

\* Faulty map: a failure gets a new error, `err(new Error("mapped"))`.
mapMarksError(h, result, fn) ==
    IF ToBoolean(Get(h, result, "ok"))
    THEN LET x == Get(h, result, "value")
             c == Call(h, fn, x)
         IN  IF c.thrown THEN Throw(c.h, c.val, <<x>>)
             ELSE LET r == ok(c.h, c.val) IN Return(r.h, r.val, <<x>>)
    ELSE LET e == NewError(h, "mapped")
             r == err(e.h, e.val)
         IN  Return(r.h, r.val, <<>>)

\* Faulty map: it does not apply fn.
mapSkip(h, result, fn) ==
    IF ToBoolean(Get(h, result, "ok"))
    THEN LET r == ok(h, Get(h, result, "value")) IN Return(r.h, r.val, <<>>)
    ELSE Return(h, result, <<>>)

\* Faulty map: a failure is wrapped again, err(result.error).
mapRewrap(h, result, fn) ==
    IF ToBoolean(Get(h, result, "ok"))
    THEN LET x == Get(h, result, "value")
             c == Call(h, fn, x)
         IN  IF c.thrown THEN Throw(c.h, c.val, <<x>>)
             ELSE LET r == ok(c.h, c.val) IN Return(r.h, r.val, <<x>>)
    ELSE err(h, Get(h, result, "error"))

\* Faulty map: it applies fn to its own output, ok(fn(fn(result.value))).
mapTwice(h, result, fn) ==
    IF ToBoolean(Get(h, result, "ok"))
    THEN LET x == Get(h, result, "value")
             c == Call(h, fn \o fn, x)
         IN  IF c.thrown THEN Throw(c.h, c.val, <<x>>)
             ELSE LET r == ok(c.h, c.val) IN Return(r.h, r.val, <<x>>)
    ELSE Return(h, result, <<>>)

\* Faulty map: it catches what fn throws and returns a failure.
mapCatch(h, result, fn) ==
    IF ToBoolean(Get(h, result, "ok"))
    THEN LET x == Get(h, result, "value")
             c == Call(h, fn, x)
         IN  IF c.thrown
             THEN LET r == err(c.h, c.val) IN Return(r.h, r.val, <<x>>)
             ELSE LET r == ok(c.h, c.val) IN Return(r.h, r.val, <<x>>)
    ELSE Return(h, result, <<>>)

map(h, result, fn) ==
    IF ToBoolean(Get(h, result, "ok"))
    THEN LET x == Get(h, result, "value")
             c == Call(h, fn, x)
         IN  IF c.thrown THEN Throw(c.h, c.val, <<x>>)
             ELSE LET r == ok(c.h, c.val) IN Return(r.h, r.val, <<x>>)
    ELSE Return(h, result, <<>>)

\* Faulty mapErr: the transformed error comes back as a success,
\* `ok(fn(result.error))`.
mapErrRecover(h, result, fn) ==
    IF ToBoolean(Get(h, result, "ok"))
    THEN Return(h, result, <<>>)
    ELSE LET x == Get(h, result, "error")
             c == Call(h, fn, x)
         IN  IF c.thrown THEN Throw(c.h, c.val, <<x>>)
             ELSE LET r == ok(c.h, c.val) IN Return(r.h, r.val, <<x>>)

\* Faulty mapErr: it wraps the old error, without calling fn.
mapErrNoCall(h, result, fn) ==
    IF ToBoolean(Get(h, result, "ok"))
    THEN Return(h, result, <<>>)
    ELSE LET r == err(h, Get(h, result, "error")) IN Return(r.h, r.val, <<>>)

mapErr(h, result, fn) ==
    IF ToBoolean(Get(h, result, "ok"))
    THEN Return(h, result, <<>>)
    ELSE LET x == Get(h, result, "error")
             c == Call(h, fn, x)
         IN  IF c.thrown THEN Throw(c.h, c.val, <<x>>)
             ELSE LET r == err(c.h, c.val) IN Return(r.h, r.val, <<x>>)

\* Faulty default: the parameter stays undefined when the argument is
\* omitted.
DefaultNone(arg, dflt) == arg

\* A parameter with a default value takes it when the argument is omitted
\* (undefined).
DefaultTo(arg, dflt) == IF arg.t = "undefined" THEN dflt ELSE arg

\* Faulty assert: the success carries the error argument, `ok(error)`.
assertOkError(h, condition, error, shouldThrow) ==
    LET d == IF error.t = "undefined" THEN NewError(h, "Assertion failed")
             ELSE Return(h, error, <<>>)
        st == DefaultTo(shouldThrow, Bool(TRUE))
    IN  IF ~ToBoolean(condition)
        THEN IF ToBoolean(st) THEN Throw(d.h, d.val, <<>>)
             ELSE err(d.h, d.val)
        ELSE ok(d.h, d.val)

\* assert(condition, error = new Error("Assertion failed"), shouldThrow = true)
\* The default error is built on entry, whatever the condition is.
assert(h, condition, error, shouldThrow) ==
    LET d == IF error.t = "undefined" THEN NewError(h, "Assertion failed")
             ELSE Return(h, error, <<>>)
        st == DefaultTo(shouldThrow, Bool(TRUE))
    IN  IF ~ToBoolean(condition)
        THEN IF ToBoolean(st) THEN Throw(d.h, d.val, <<>>)
             ELSE err(d.h, d.val)
        ELSE ok(d.h, Bool(TRUE))

\* Faulty assertOr: it raises whatever shouldThrow is.
assertOrAlwaysThrow(h, condition, error, shouldThrow) ==
    IF ~ToBoolean(condition) THEN Throw(h, error, <<>>)
    ELSE ok(h, Bool(TRUE))

\* assertOr(condition, error, shouldThrow = true)
assertOr(h, condition, error, shouldThrow) ==
    LET st == DefaultTo(shouldThrow, Bool(TRUE))
    IN  IF ~ToBoolean(condition)
        THEN IF ToBoolean(st) THEN Throw(h, error, <<>>)
             ELSE err(h, error)
        ELSE ok(h, Bool(TRUE))

\* Faulty assertNotNil: it tests truthiness, `if (!value)`.
assertNotNilFalsy(h, value, message, shouldThrow) ==
    LET m == DefaultTo(message, Str("Expected value to be non-null"))
        st == DefaultTo(shouldThrow, Bool(TRUE))
    IN  IF ~ToBoolean(value)
        THEN LET e == NewError(h, m.s)
             IN  IF ToBoolean(st) THEN Throw(e.h, e.val, <<>>)
                 ELSE err(e.h, e.val)
        ELSE ok(h, value)

\* Faulty assertNotNil: the message argument is not used.
assertNotNilFixedMessage(h, value, message, shouldThrow) ==
    LET st == DefaultTo(shouldThrow, Bool(TRUE))
    IN  IF value.t = "null" \/ value.t = "undefined"
        THEN LET e == NewError(h, "Expected value to be non-null")
             IN  IF ToBoolean(st) THEN Throw(e.h, e.val, <<>>)
                 ELSE err(e.h, e.val)
        ELSE ok(h, value)

\* assertNotNil(value, message = "Expected value to be non-null",
\*              shouldThrow = true)
assertNotNil(h, value, message, shouldThrow) ==
    LET m == DefaultTo(message, Str("Expected value to be non-null"))
        st == DefaultTo(shouldThrow, Bool(TRUE))
    IN  IF value.t = "null" \/ value.t = "undefined"
        THEN LET e == NewError(h, m.s)
             IN  IF ToBoolean(st) THEN Throw(e.h, e.val, <<>>)
                 ELSE err(e.h, e.val)
        ELSE ok(h, value)

\* Object.create(null): an object without toString and valueOf.
NewBare(h) ==
    Return(Append(h, [class |-> "Bare", f |-> [k \in {} |-> Undefined]]),
           Ref(Len(h) + 1), <<>>)

\* String(v).  The conversion of an object calls its toString; an object
\* that has none cannot be converted, and String throws a TypeError.
RECURSIVE Digits(_)
Digits(k) ==
    LET d == <<"0", "1", "2", "3", "4", "5", "6", "7", "8", "9">>
    IN  IF k < 10 THEN d[k + 1] ELSE Digits(k \div 10) \o d[(k % 10) + 1]

Convertible(h, v) == v.t = "object" => h[v.n].class # "Bare"

String(h, v) ==
    CASE v.t = "undefined" -> "undefined"
      [] v.t = "null" -> "null"
      [] v.t = "boolean" -> IF v.n = 1 THEN "true" ELSE "false"
      [] v.t = "number" -> Digits(v.n)
      [] v.t = "string" -> v.s
      [] OTHER -> IF h[v.n].class = "Error"
                  THEN "Error: " \o Get(h, v, "message").s
                  ELSE "[object Object]"

InstanceOfError(h, v) ==
    v.t = "object" /\ v.n \in 1..Len(h) /\ h[v.n].class = "Error"

\* e instanceof Error ? e : new Error(String(e))
Coerce(h, e) ==
    IF InstanceOfError(h, e) THEN Return(h, e, <<>>)
    ELSE IF Convertible(h, e) THEN NewError(h, String(h, e))
    ELSE LET t == NewError(h, "Cannot convert object to primitive value")
         IN  Throw(t.h, t.val, <<>>)

\* Faulty catch clause: the failure wraps what was caught, `return err(e)`.
CatchNoCoerce(h, e, shouldThrow) ==
    LET error == Coerce(h, e)
    IN  IF error.thrown THEN error
        ELSE IF ToBoolean(shouldThrow) THEN Throw(error.h, error.val, <<>>)
        ELSE err(error.h, e)

\* Faulty catch clause: it rethrows what was caught, `throw e`.
CatchRethrowRaw(h, e, shouldThrow) ==
    LET error == Coerce(h, e)
    IN  IF error.thrown THEN error
        ELSE IF ToBoolean(shouldThrow) THEN Throw(error.h, e, <<>>)
        ELSE err(error.h, error.val)

\* Faulty catch clause: an Error is copied too, `new Error(e.message)`.
CatchCopy(h, e, shouldThrow) ==
    LET error == IF InstanceOfError(h, e)
                 THEN NewError(h, Get(h, e, "message").s)
                 ELSE Coerce(h, e)
    IN  IF error.thrown THEN error
        ELSE IF ToBoolean(shouldThrow) THEN Throw(error.h, error.val, <<>>)
        ELSE err(error.h, error.val)

\* The catch clause of tryResult: e is what was caught, shouldThrow the
\* parameter (after its default).  An exception of the clause itself leaves
\* the function.
Catch(h, e, shouldThrow) ==
    LET error == Coerce(h, e)
    IN  IF error.thrown THEN error
        ELSE IF ToBoolean(shouldThrow) THEN Throw(error.h, error.val, <<>>)
        ELSE err(error.h, error.val)

\* Faulty tryResult: every truthy value is taken for a Result,
\* `if (value) return ok(unwrap(value))`.
tryResultDuck(h, settled, shouldThrow) ==
    LET value == settled.val
        body == IF settled.thrown THEN Throw(h, value, <<>>)
                ELSE IF ToBoolean(value)
                THEN LET u == unwrap(h, value)
                     IN  IF u.thrown THEN u ELSE ok(u.h, u.val)
                ELSE ok(h, value)
    IN  IF ~body.thrown THEN body
        ELSE Catch(body.h, body.val, DefaultTo(shouldThrow, Bool(FALSE)))

\* Faulty tryResult: a Result is wrapped like any value, without the
\* `_isResult_` test.
tryResultNested(h, settled, shouldThrow) ==
    LET value == settled.val
        body == IF settled.thrown THEN Throw(h, value, <<>>)
                ELSE ok(h, value)
    IN  IF ~body.thrown THEN body
        ELSE Catch(body.h, body.val, DefaultTo(shouldThrow, Bool(FALSE)))

\* Faulty tryResult: it reads the payload of a Result without unwrap,
\* `return ok(value.value)`.
tryResultValueOnly(h, settled, shouldThrow) ==
    LET value == settled.val
        body == IF settled.thrown THEN Throw(h, value, <<>>)
                ELSE IF ToBoolean(value) /\ ToBoolean(Get(h, value, "_isResult_"))
                THEN ok(h, Get(h, value, "value"))
                ELSE ok(h, value)
    IN  IF ~body.thrown THEN body
        ELSE Catch(body.h, body.val, DefaultTo(shouldThrow, Bool(FALSE)))

\* Faulty tryResult: it keeps the Result it built last and answers the
\* next call from it.
tryResultCached(h, settled, shouldThrow) ==
    LET built == {r \in {Ref(a) : a \in 1..Len(h)} :
                     ToBoolean(Get(h, r, "_isResult_")) /\ r # settled.val}
        value == settled.val
        body == IF settled.thrown THEN Throw(h, value, <<>>)
                ELSE IF ToBoolean(value) /\ ToBoolean(Get(h, value, "_isResult_"))
                THEN LET u == unwrap(h, value)
                     IN  IF u.thrown THEN u ELSE ok(u.h, u.val)
                ELSE ok(h, value)
    IN  IF built # {} /\ ~settled.thrown
        THEN Return(h, CHOOSE r \in built : \A q \in built : q.n <= r.n, <<>>)
        ELSE IF ~body.thrown THEN body
        ELSE Catch(body.h, body.val, DefaultTo(shouldThrow, Bool(FALSE)))

\* tryResult(fn, shouldThrow = false), from the point where `await fn()`
\* completes: settled is the outcome of fn (returned/fulfilled with val, or
\* thrown/rejected with val).  A Return is the promise of tryResult
\* resolving, a Throw is it rejecting.
tryResult(h, settled, shouldThrow) ==
    LET value == settled.val
        body == IF settled.thrown THEN Throw(h, value, <<>>)
                ELSE IF ToBoolean(value) /\ ToBoolean(Get(h, value, "_isResult_"))
                THEN LET u == unwrap(h, value)
                     IN  IF u.thrown THEN u ELSE ok(u.h, u.val)
                ELSE ok(h, value)
    IN  IF ~body.thrown THEN body
        ELSE Catch(body.h, body.val, DefaultTo(shouldThrow, Bool(FALSE)))

\* ------------------------------------------------------------ the caller
\* The caller's code is one pipeline: a first call that produces a Result
\* (ok, err, an assertion helper, or tryResult), then calls that inspect,
\* transform, unwrap or re-wrap (tryResult) the Result it holds.
Payloads == {Undefined, Null, Bool(FALSE), Num(0), Str(""), Num(5)}
Thrown == {Str("string error"), Num(5)}
Conditions == {Bool(TRUE), Bool(FALSE)}
OptBool == {Undefined, Bool(TRUE), Bool(FALSE)}
OptMessage == {Undefined, Str("m")}

Refs(h) == {Ref(a) : a \in 1..Len(h)}
Results(h) == {r \in Refs(h) : ToBoolean(Get(h, r, "_isResult_"))}
Errors(h) == {r \in Refs(h) : h[r.n].class = "Error"}

\* An Error argument: an error the caller holds, or `new Error("e")` written
\* in the call.
ErrorArgs(h) == {Return(h, e, <<>>) : e \in Errors(h)} \cup {NewError(h, "e")}

\* What a function may throw or reject with: an Error or another value,
\* `Object.create(null)` among them.
ThrowArgs(h) ==
    {Return(h, t, <<>>) : t \in Thrown} \cup ErrorArgs(h) \cup {NewBare(h)}

NoCall ==
    [op |-> "none", args |-> <<>>, fn |-> <<>>, thrown |-> FALSE,
     val |-> Undefined, inv |-> <<>>, alt |-> Undefined, pre |-> 0]

NoChain ==
    [src |-> "none", arg |-> Undefined, root |-> Undefined, cur |-> Undefined,
     len |-> 0, maps |-> 0, mapErrs |-> 0, mapInv |-> 0, mapErrInv |-> 0]

Init ==
    /\ heap = <<>>
    /\ last = NoCall
    /\ chain = NoChain
    /\ tasks = <<>>

\* The record of a finished call: its outcome o, and the heap size before.
Done(op, args, fn, o, alt) ==
    /\ heap' = o.h
    /\ last' = [op |-> op, args |-> args, fn |-> fn, thrown |-> o.thrown,
                val |-> o.val, inv |-> o.inv, alt |-> alt, pre |-> Len(heap)]

\* The caller awaits the promise of a tryResult call before its next call.
Idle == \A i \in 1..Len(tasks) : tasks[i].pc # "awaiting"

\* Nothing has been called yet.
Fresh == last.op = "none" /\ tasks = <<>>

\* The caller holds one current Result, chain.cur: the first call (src,
\* with argument arg) starts a chain at the Result it returns (root), and
\* each map or mapErr call is applied to the Result the previous call
\* returned.  maps and mapErrs count the calls of map and mapErr since root,
\* mapInv and mapErrInv the invocations of the functions handed to them; a
\* call that throws assigns nothing.  A tryResult call that re-wraps the
\* held Result starts the chain anew at what it resolves to.  len counts
\* the calls made after the first one, at most MaxChain.
Begin(op, arg, o, len) ==
    [NoChain EXCEPT !.src = op, !.arg = arg, !.root = o.val, !.cur = o.val,
                    !.len = len]

Start(op, arg, o) ==
    chain' = IF o.thrown THEN chain ELSE Begin(op, arg, o, 0)

Chained(o, calls, invs, isMap) ==
    /\ chain.len + calls <= MaxChain
    /\ chain' = [chain EXCEPT
                    !.cur = IF o.thrown THEN @ ELSE o.val,
                    !.len = @ + calls,
                    !.maps = @ + (IF isMap THEN calls ELSE 0),
                    !.mapErrs = @ + (IF isMap THEN 0 ELSE calls),
                    !.mapInv = @ + (IF isMap THEN invs ELSE 0),
                    !.mapErrInv = @ + (IF isMap THEN 0 ELSE invs)]

Held == IF chain.cur.t = "object" THEN {chain.cur} ELSE {}

CallOk ==
    /\ Fresh
    /\ \E v \in Payloads :
          /\ Done("ok", <<v>>, <<>>, ok(heap, v), Undefined)
          /\ Start("ok", v, ok(heap, v))
    /\ UNCHANGED tasks

CallErr ==
    /\ Fresh
    /\ \E e \in ErrorArgs(heap) :
          /\ Done("err", <<e.val>>, <<>>, err(e.h, e.val), Undefined)
          /\ Start("err", e.val, err(e.h, e.val))
    /\ UNCHANGED tasks

\* isOk(r) and isErr(r) on the same Result: alt is the other's answer.
CallIsOk ==
    /\ Idle
    /\ \E r \in Held :
          Done("isOk", <<r>>, <<>>, isOk(heap, r), isErr(heap, r).val)
    /\ UNCHANGED <<chain, tasks>>

CallIsErr ==
    /\ Idle
    /\ \E r \in Held :
          Done("isErr", <<r>>, <<>>, isErr(heap, r), isOk(heap, r).val)
    /\ UNCHANGED <<chain, tasks>>

CallUnwrap ==
    /\ Idle
    /\ \E r \in Held :
          Done("unwrap", <<r>>, <<>>, unwrap(heap, r), Undefined)
    /\ UNCHANGED <<chain, tasks>>

CallMap ==
    /\ Idle
    /\ \E r \in Held, f \in ValueFns :
          /\ ToBoolean(Get(heap, r, "ok"))
                => Accepts(heap, <<f>>, Get(heap, r, "value"))
          /\ Done("map", <<r>>, <<f>>, map(heap, r, <<f>>), Undefined)
          /\ Chained(map(heap, r, <<f>>), 1, Len(map(heap, r, <<f>>).inv), TRUE)
    /\ UNCHANGED tasks

CallMapErr ==
    /\ Idle
    /\ \E r \in Held, g \in ErrorFns :
          /\ ~ToBoolean(Get(heap, r, "ok"))
                => Accepts(heap, <<g>>, Get(heap, r, "error"))
          /\ Done("mapErr", <<r>>, <<g>>, mapErr(heap, r, <<g>>), Undefined)
          /\ Chained(mapErr(heap, r, <<g>>), 1, Len(mapErr(heap, r, <<g>>).inv), FALSE)
    /\ UNCHANGED tasks

\* The chaining identity, as the caller tests it: map(map(r, f), g) next to
\* map(r, x => g(f(x))), with functions that do not raise.  val is what the
\* nested calls return, alt what the call with the composed function
\* returns; the pipeline goes on from val.
CallMapCompose ==
    /\ Idle
    /\ \E r \in Held, f \in ValueFns \ Raising, g \in ValueFns \ Raising :
          LET o1 == map(heap, r, <<f>>)
              o2 == map(o1.h, o1.val, <<g>>)
              o3 == map(o2.h, r, <<f, g>>)
          IN  /\ ToBoolean(Get(heap, r, "ok"))
                    => Accepts(heap, <<f, g>>, Get(heap, r, "value"))
              /\ heap' = o3.h
              /\ last' = [op |-> "map.map", args |-> <<r>>, fn |-> <<f, g>>,
                          thrown |-> FALSE, val |-> o2.val,
                          inv |-> o1.inv \o o2.inv, alt |-> o3.val,
                          pre |-> Len(heap)]
              /\ Chained(o2, 2, Len(o1.inv) + Len(o2.inv), TRUE)
    /\ UNCHANGED tasks

CallMapErrCompose ==
    /\ Idle
    /\ \E r \in Held, f \in ErrorFns \ Raising, g \in ErrorFns \ Raising :
          LET o1 == mapErr(heap, r, <<f>>)
              o2 == mapErr(o1.h, o1.val, <<g>>)
              o3 == mapErr(o2.h, r, <<f, g>>)
          IN  /\ ~ToBoolean(Get(heap, r, "ok"))
                    => Accepts(heap, <<f, g>>, Get(heap, r, "error"))
              /\ heap' = o3.h
              /\ last' = [op |-> "mapErr.mapErr", args |-> <<r>>, fn |-> <<f, g>>,
                          thrown |-> FALSE, val |-> o2.val,
                          inv |-> o1.inv \o o2.inv, alt |-> o3.val,
                          pre |-> Len(heap)]
              /\ Chained(o2, 2, Len(o1.inv) + Len(o2.inv), FALSE)
    /\ UNCHANGED tasks

\* The two orders of a map and a mapErr, as the caller compares them:
\* map(mapErr(r, g), f) next to mapErr(map(r, f), g), with functions that
\* do not raise.  val is what the first order returns, alt what the second
\* returns; the pipeline goes on from val.
CallMapMapErr ==
    /\ Idle
    /\ chain.len + 2 <= MaxChain
    /\ \E r \in Held, f \in ValueFns \ Raising, g \in ErrorFns \ Raising :
          LET a1 == mapErr(heap, r, <<g>>)
              a2 == map(a1.h, a1.val, <<f>>)
              b1 == map(a2.h, r, <<f>>)
              b2 == mapErr(b1.h, b1.val, <<g>>)
          IN  /\ IF ToBoolean(Get(heap, r, "ok"))
                 THEN Accepts(heap, <<f>>, Get(heap, r, "value"))
                 ELSE Accepts(heap, <<g>>, Get(heap, r, "error"))
              /\ heap' = b2.h
              /\ last' = [op |-> "map.mapErr", args |-> <<r>>, fn |-> <<g, f>>,
                          thrown |-> FALSE, val |-> a2.val,
                          inv |-> a1.inv \o a2.inv, alt |-> b2.val,
                          pre |-> Len(heap)]
              /\ chain' = [chain EXCEPT !.cur = a2.val,
                                        !.len = @ + 2,
                                        !.maps = @ + 1,
                                        !.mapErrs = @ + 1,
                                        !.mapInv = @ + Len(a2.inv),
                                        !.mapErrInv = @ + Len(a1.inv)]
    /\ UNCHANGED tasks

CallAssert ==
    /\ Fresh
    /\ \E c \in Conditions, e \in {Return(heap, Undefined, <<>>)} \cup ErrorArgs(heap),
          st \in OptBool :
          /\ Done("assert", <<c, e.val, st>>, <<>>, assert(e.h, c, e.val, st), Undefined)
          /\ Start("assert", c, assert(e.h, c, e.val, st))
    /\ UNCHANGED tasks

CallAssertOr ==
    /\ Fresh
    /\ \E c \in Conditions, e \in ErrorArgs(heap), st \in OptBool :
          /\ Done("assertOr", <<c, e.val, st>>, <<>>, assertOr(e.h, c, e.val, st), Undefined)
          /\ Start("assertOr", c, assertOr(e.h, c, e.val, st))
    /\ UNCHANGED tasks

CallAssertNotNil ==
    /\ Fresh
    /\ \E v \in Payloads, m \in OptMessage, st \in OptBool :
          /\ Done("assertNotNil", <<v, m, st>>, <<>>,
                  assertNotNil(heap, v, m, st), Undefined)
          /\ Start("assertNotNil", v, assertNotNil(heap, v, m, st))
    /\ UNCHANGED tasks

\* A settled call of tryResult: what is left of it is its promise, and
\* the number of times it has invoked fn.
Settled(o, calls) ==
    [pc |-> IF o.thrown THEN "rejected" ELSE "resolved", st |-> Undefined,
     fn |-> "settled", fv |-> Undefined, calls |-> calls]

\* tryResult(fn, shouldThrow): the call runs fn.  Either fn throws before
\* it returns a promise, and the catch clause runs at once, or it returns a
\* pending promise and tryResult is suspended at the await.
CallTryResult ==
    /\ Idle
    /\ Len(tasks) < MaxTasks
    /\ \E st \in OptBool :
          \/ /\ Fresh
             /\ \E x \in ThrowArgs(heap) :
                   LET o == tryResult(x.h, Throw(x.h, x.val, <<>>), st) IN
                   /\ tasks' = Append(tasks, Settled(o, 1))
                   /\ Done("tryResult", <<x.val, st, Bool(TRUE)>>, <<>>, o, Undefined)
                   /\ Start("tryResult", x.val, o)
          \/ /\ Fresh \/ (Held # {} /\ chain.len < MaxChain)
             /\ tasks' = Append(tasks, [pc |-> "awaiting", st |-> st,
                                        fn |-> "pending", fv |-> Undefined,
                                        calls |-> 1])
             /\ UNCHANGED <<heap, last, chain>>

\* The promise returned by fn is fulfilled or rejected.  In a first call
\* it is fulfilled with a plain value (a primitive, or an object that is
\* not a Result) or with a Result that fn builds, or rejected; later in
\* the pipeline fn returns the Result the caller holds.
FnSettle ==
    /\ \E i \in 1..Len(tasks) :
          /\ tasks[i].fn = "pending"
          /\ \/ \E v \in Held :
                   /\ tasks' = [tasks EXCEPT ![i].fn = "fulfilled", ![i].fv = v]
                   /\ UNCHANGED heap
             \/ \E v \in Payloads :
                   /\ Held = {}
                   /\ tasks' = [tasks EXCEPT ![i].fn = "fulfilled", ![i].fv = v]
                   /\ UNCHANGED heap
             \/ \E e \in ErrorArgs(heap) :
                   /\ Held = {}
                   /\ tasks' = [tasks EXCEPT ![i].fn = "fulfilled", ![i].fv = e.val]
                   /\ heap' = e.h
             \/ \E v \in Payloads :
                   /\ Held = {}
                   /\ tasks' = [tasks EXCEPT ![i].fn = "fulfilled",
                                             ![i].fv = ok(heap, v).val]
                   /\ heap' = ok(heap, v).h
             \/ \E e \in ErrorArgs(heap) :
                   /\ Held = {}
                   /\ tasks' = [tasks EXCEPT ![i].fn = "fulfilled",
                                             ![i].fv = err(e.h, e.val).val]
                   /\ heap' = err(e.h, e.val).h
             \/ \E x \in ThrowArgs(heap) :
                   /\ Held = {}
                   /\ tasks' = [tasks EXCEPT ![i].fn = "rejected", ![i].fv = x.val]
                   /\ heap' = x.h
    /\ UNCHANGED <<last, chain>>

\* The call of task i ends with outcome o: its promise settles, and the
\* Result it resolves to, if any, is the one the caller holds from then on.
\* fn of the record names the call that made the Result fn returned, when
\* fn is `() => ok(...)`, `() => tryResult(...)` and the like.
Finish(i, o) ==
    /\ tasks' = [tasks EXCEPT ![i] = Settled(o, tasks[i].calls)]
    /\ Done("tryResult",
            <<tasks[i].fv, tasks[i].st, Bool(tasks[i].fn = "rejected")>>,
            IF Held # {} /\ chain.len = 0 THEN <<chain.src>> ELSE <<>>,
            o, Undefined)
    /\ IF Held = {} THEN Start("tryResult", tasks[i].fv, o)
       ELSE chain' = IF o.thrown THEN [chain EXCEPT !.len = @ + 1]
                     ELSE Begin("tryResult", tasks[i].fv, o, chain.len + 1)

\* What fn's promise has settled with, for task i.
SettledWith(i) ==
    IF tasks[i].fn = "rejected" THEN Throw(heap, tasks[i].fv, <<>>)
    ELSE Return(heap, tasks[i].fv, <<>>)

\* Faulty tryResult: after a rejection it invokes fn once more before it
\* gives up.
TryResultRetry ==
    /\ \E i \in 1..Len(tasks) :
          /\ tasks[i].pc = "awaiting"
          /\ tasks[i].fn \in {"fulfilled", "rejected"}
          /\ IF tasks[i].fn = "rejected" /\ tasks[i].calls < 2
             THEN /\ tasks' = [tasks EXCEPT ![i].fn = "pending",
                                            ![i].fv = Undefined,
                                            ![i].calls = @ + 1]
                  /\ UNCHANGED <<heap, last, chain>>
             ELSE Finish(i, tryResult(heap, SettledWith(i), tasks[i].st))

\* Faulty tryResult: it does not wait for fn; while fn's promise is
\* pending it may give up and reject with a timeout error.
TryResultTimeout ==
    /\ \E i \in 1..Len(tasks) :
          /\ tasks[i].pc = "awaiting"
          /\ IF tasks[i].fn = "pending"
             THEN LET e == NewError(heap, "timeout")
                  IN  Finish(i, Throw(e.h, e.val, <<>>))
             ELSE Finish(i, tryResult(heap, SettledWith(i), tasks[i].st))

\* tryResult resumes after the await and settles its own promise.
TryResultResume ==
    /\ \E i \in 1..Len(tasks) :
          /\ tasks[i].pc = "awaiting"
          /\ tasks[i].fn \in {"fulfilled", "rejected"}
          /\ Finish(i, tryResult(heap, SettledWith(i), tasks[i].st))

Next ==
    \/ CallOk
    \/ CallErr
    \/ CallIsOk
    \/ CallIsErr
    \/ CallUnwrap
    \/ CallMap
    \/ CallMapErr
    \/ CallMapCompose
    \/ CallMapErrCompose
    \/ CallMapMapErr
    \/ CallAssert
    \/ CallAssertOr
    \/ CallAssertNotNil
    \/ CallTryResult
    \/ FnSettle
    \/ TryResultResume

Spec == Init /\ [][Next]_vars

\* A caller that only calls tryResult (on a function, then on functions
\* that return the Result of the call before).  The event loop runs the
\* continuation of an await once the awaited promise has settled; nothing
\* makes the promise of fn settle.
NextLive ==
    \/ CallTryResult
    \/ FnSettle
    \/ TryResultResume

SpecLive == Init /\ [][NextLive]_vars /\ WF_vars(TryResultResume)

\* ------------------------------------------------- concurrent callers
\* Several calls of tryResult are pending at once (the caller starts them
\* without awaiting, as with Promise.all): the functions settle in any
\* order and each call resumes when its own function has settled.  A task
\* keeps what its function settled with and, in out, how its own promise
\* settled.  last and chain are not used.
FnOutcomes == {"plain", "ok", "err", "rejectString", "rejectError"}

FnOutcome(h, k) ==
    CASE k = "plain" -> Return(h, Num(0), <<>>)
      [] k = "ok" -> ok(h, Num(5))
      [] k = "err" -> LET e == NewError(h, "e") IN err(e.h, e.val)
      [] k = "rejectString" -> Throw(h, Str("string error"), <<>>)
      [] OTHER -> LET e == NewError(h, "e") IN Throw(e.h, e.val, <<>>)

AsyncCall ==
    /\ Len(tasks) < MaxPending
    /\ \E st \in {Bool(TRUE), Bool(FALSE)} :
          tasks' = Append(tasks, [pc |-> "awaiting", st |-> st, fn |-> "pending",
                                  fv |-> Undefined, calls |-> 1,
                                  out |-> Undefined])
    /\ UNCHANGED <<heap, last, chain>>

AsyncFnSettle ==
    /\ \E i \in 1..Len(tasks), k \in FnOutcomes :
          /\ tasks[i].fn = "pending"
          /\ LET o == FnOutcome(heap, k) IN
             /\ tasks' = [tasks EXCEPT
                             ![i].fn = IF o.thrown THEN "rejected" ELSE "fulfilled",
                             ![i].fv = o.val]
             /\ heap' = o.h
    /\ UNCHANGED <<last, chain>>

AsyncResume ==
    /\ \E i \in 1..Len(tasks) :
          /\ tasks[i].pc = "awaiting"
          /\ tasks[i].fn \in {"fulfilled", "rejected"}
          /\ LET o == tryResult(heap, SettledWith(i), tasks[i].st) IN
             /\ tasks' = [tasks EXCEPT
                             ![i].pc = IF o.thrown THEN "rejected" ELSE "resolved",
                             ![i].out = o.val]
             /\ heap' = o.h
    /\ UNCHANGED <<last, chain>>

NextAsync ==
    \/ AsyncCall
    \/ AsyncFnSettle
    \/ AsyncResume

SpecAsync == Init /\ [][NextAsync]_vars

\* ------------------------------------------------------------ properties
\* What the properties read off a state.
IsSuccess(h, r) == Get(h, r, "ok") = Bool(TRUE)
IsFailure(h, r) == Get(h, r, "ok") = Bool(FALSE)
Has(h, r, k) == r.t = "object" /\ r.n \in 1..Len(h) /\ k \in DOMAIN h[r.n].f

\* The heap as it was when the last call began (objects are only added).
PreHeap == SubSeq(heap, 1, last.pre)

\* v in heap h and w in heap g are the same primitive, or objects of the
\* same class with the same properties.
RECURSIVE DeepEq(_, _, _, _)
DeepEq(h, v, g, w) ==
    IF v.t = "object" /\ w.t = "object"
    THEN /\ h[v.n].class = g[w.n].class
         /\ DOMAIN h[v.n].f = DOMAIN g[w.n].f
         /\ \A k \in DOMAIN h[v.n].f : DeepEq(h, h[v.n].f[k], g, g[w.n].f[k])
    ELSE v = w

WellFormed(h, r) ==
    \/ /\ IsSuccess(h, r) /\ Has(h, r, "value") /\ ~Has(h, r, "error")
    \/ /\ IsFailure(h, r) /\ Has(h, r, "error") /\ ~Has(h, r, "value")

ResultOps ==
    {"ok", "err", "map", "mapErr", "map.map", "mapErr.mapErr", "map.mapErr",
     "tryResult",
     "assert", "assertOr", "assertNotNil"}

\* C1: every Result a toolkit operation returns, in any composition, is
\* well-formed: ok is true with a value field and no error field, or ok is
\* false with an error field and no value field.
C1_WellFormed ==
    /\ (last.op \in ResultOps /\ ~last.thrown) => WellFormed(heap, last.val)
    /\ last.op \in {"map.map", "mapErr.mapErr"} => WellFormed(heap, last.alt)
    /\ \A r \in Results(heap) : WellFormed(heap, r)

\* mapErr has transformed a failure that tryResult resolved to.
C1_Witness ==
    /\ last.op = "mapErr" /\ ~last.thrown /\ Len(last.inv) = 1
    /\ chain.src = "tryResult"
    /\ last.val # last.args[1]

\* C2: isErr(r) is the negation of isOk(r) for every Result r; isOk(ok(v))
\* is true for every payload v, falsy ones included, and isErr(err(e)) is
\* true for every error e.
C2_Discriminators ==
    /\ last.op = "isOk" =>
          /\ last.val \in {Bool(TRUE), Bool(FALSE)}
          /\ last.alt = Bool(last.val = Bool(FALSE))
    /\ last.op = "isErr" =>
          /\ last.alt \in {Bool(TRUE), Bool(FALSE)}
          /\ last.val = Bool(last.alt = Bool(FALSE))
    /\ (last.op = "isOk" /\ chain.src = "ok" /\ chain.len = 0)
          => last.val = Bool(TRUE)
    /\ (last.op = "isErr" /\ chain.src = "err" /\ chain.len = 0)
          => last.val = Bool(TRUE)

\* isOk has been asked of ok(null).
C2_Witness ==
    /\ last.op = "isOk" /\ chain.src = "ok" /\ chain.len = 0
    /\ chain.arg = Null /\ last.args = <<chain.root>>

\* C3: the error held by err(e) is e itself, the same reference.
C3_ErrIdentity ==
    last.op = "err" =>
       /\ ~last.thrown
       /\ Get(heap, last.val, "error") = last.args[1]

\* err has been called with an Error.
C3_Witness ==
    /\ last.op = "err"
    /\ InstanceOfError(heap, last.args[1])

\* C4: unwrap(ok(v)) returns v and does not raise, for every payload v,
\* falsy ones included.
C4_UnwrapOk ==
    (last.op = "unwrap" /\ chain.src = "ok" /\ chain.len = 0) =>
       /\ ~last.thrown
       /\ last.val = chain.arg

\* unwrap has been called on ok(0).
C4_Witness ==
    /\ last.op = "unwrap" /\ chain.src = "ok" /\ chain.len = 0
    /\ chain.arg = Num(0) /\ last.args = <<chain.root>>

\* C5: unwrap of a failure Result never returns: it raises the error object
\* the Result contains, the same reference.
C5_UnwrapErr ==
    (last.op = "unwrap" /\ IsFailure(heap, last.args[1])) =>
       /\ last.thrown
       /\ last.val = Get(heap, last.args[1], "error")
       /\ Len(heap) = last.pre

\* unwrap has been called on a failure that holds an Error.
C5_Witness ==
    /\ last.op = "unwrap" /\ IsFailure(heap, last.args[1])
    /\ InstanceOfError(heap, Get(heap, last.args[1], "error"))

\* C6: for every payload v and function f that does not raise, map(ok(v), f)
\* invokes f exactly once, with v, and returns a success Result whose
\* payload is f(v).
C6_MapOk ==
    (last.op = "map" /\ IsSuccess(heap, last.args[1])
                     /\ Head(last.fn) \notin Raising) =>
       LET v == Get(heap, last.args[1], "value") IN
       /\ ~last.thrown
       /\ last.inv = <<v>>
       /\ IsSuccess(heap, last.val)
       /\ Get(heap, last.val, "value") = Call(PreHeap, last.fn, v).val

\* map has squared the payload of ok(5).
C6_Witness ==
    /\ last.op = "map" /\ last.fn = <<"square">>
    /\ chain.src = "ok" /\ chain.arg = Num(5) /\ chain.len = 1
    /\ Get(heap, last.val, "value") = Num(25)

\* C7: map of a failure Result r returns r itself and does not invoke f;
\* so after any chain of map calls that starts from err(e) the Result is
\* still that failure, carrying e, and no function has been invoked.
C7_MapShortCircuit ==
    /\ (last.op = "map" /\ IsFailure(heap, last.args[1])) =>
          /\ ~last.thrown
          /\ last.val = last.args[1]
          /\ last.inv = <<>>
    /\ (chain.src = "err" /\ chain.mapErrs = 0) =>
          /\ chain.cur = chain.root
          /\ chain.mapInv = 0
          /\ IsFailure(heap, chain.cur)
          /\ Get(heap, chain.cur, "error") = chain.arg

\* Two successive map calls have been made, starting from err(e).
C7_Witness ==
    /\ last.op = "map" /\ chain.src = "err"
    /\ chain.maps = 2 /\ chain.mapErrs = 0

\* C8: mapErr(err(e), g) invokes g exactly once, with e, and returns a
\* failure Result whose error is g(e); mapErr(ok(v), g) returns the success
\* Result it was given and does not invoke g.
C8_MapErrDual ==
    /\ (last.op = "mapErr" /\ IsFailure(heap, last.args[1])
                           /\ Head(last.fn) \notin Raising) =>
          LET e == Get(heap, last.args[1], "error")
              c == Call(PreHeap, last.fn, e)
          IN  /\ ~last.thrown
              /\ last.inv = <<e>>
              /\ IsFailure(heap, last.val)
              /\ Get(heap, last.val, "error") = c.val
              /\ DeepEq(heap, c.val, c.h, c.val)
    /\ (last.op = "mapErr" /\ IsSuccess(heap, last.args[1])) =>
          /\ ~last.thrown
          /\ last.val = last.args[1]
          /\ last.inv = <<>>

\* mapErr has replaced the error "e" by a new one that quotes it.
C8_Witness ==
    /\ last.op = "mapErr" /\ last.fn = <<"enhance">>
    /\ IsFailure(heap, last.args[1])
    /\ Get(heap, Get(heap, last.val, "error"), "message") = Str("Enhanced: e")
    /\ Get(heap, last.val, "error") # Get(heap, last.args[1], "error")

\* Two Results are of the same variant, with equal payloads or equal errors.
SameResult(h, a, b) ==
    /\ Get(h, a, "ok") = Get(h, b, "ok")
    /\ Has(h, a, "value") = Has(h, b, "value")
    /\ Has(h, a, "error") = Has(h, b, "error")
    /\ DeepEq(h, Get(h, a, "value"), h, Get(h, b, "value"))
    /\ DeepEq(h, Get(h, a, "error"), h, Get(h, b, "error"))

\* C9: chaining composes: map(map(r, f), g) equals map(r, x => g(f(x))) for
\* every Result r and functions f, g that do not raise (same variant, same
\* payload, and for a failure the same error reference), and mapErr
\* likewise; map(map(ok(5), x => x*2), x => x*x) is ok(100).
C9_Compose ==
    /\ last.op \in {"map.map", "mapErr.mapErr"} =>
          SameResult(heap, last.val, last.alt)
    /\ (last.op = "map.map" /\ IsFailure(heap, last.args[1])) =>
          Get(heap, last.val, "error") = Get(heap, last.alt, "error")
    /\ (last.op = "mapErr.mapErr" /\ IsSuccess(heap, last.args[1])) =>
          Get(heap, last.val, "value") = Get(heap, last.alt, "value")
    /\ (last.op = "map.map" /\ last.fn = <<"double", "square">>
           /\ Get(heap, last.args[1], "value") = Num(5)) =>
          /\ IsSuccess(heap, last.val)
          /\ Get(heap, last.val, "value") = Num(100)

\* ok(5) has been doubled and then squared, next to the composed call.
C9_Witness ==
    /\ last.op = "map.map" /\ last.fn = <<"double", "square">>
    /\ Get(heap, last.args[1], "value") = Num(5)
    /\ last.val # last.alt

\* C10: map and mapErr raise exactly when the transform is invoked and
\* raises, and then what propagates is what the transform raised: it is
\* not caught and no failure Result is made of it.
C10_Propagation ==
    last.op \in {"map", "mapErr"} =>
       LET c == Call(PreHeap, last.fn, last.inv[1]) IN
       /\ last.thrown <=> (last.inv # <<>> /\ c.thrown)
       /\ last.thrown =>
             /\ last.val = c.val
             /\ DeepEq(heap, last.val, c.h, c.val)
             /\ Len(heap) = Len(c.h)

\* map has propagated the string its function threw.
C10_Witness ==
    /\ last.op = "map" /\ last.thrown
    /\ last.fn = <<"raiseStr">> /\ last.val = Str("boom")

\* A finished call of tryResult: what fn settled with, whether fn rejected
\* (or threw), and the shouldThrow argument (undefined when omitted).
TryDone == last.op = "tryResult"
FnValue == last.args[1]
ShouldThrowArg == last.args[2]
FnRejected == last.args[3] = Bool(TRUE)
Marked(h, v) == ToBoolean(v) /\ ToBoolean(Get(h, v, "_isResult_"))

\* C11: when fn resolves to a value that is not a marked Result (no truthy
\* _isResult_ field; null, undefined, 0, false and "" included), tryResult
\* resolves to a success Result whose payload is exactly that value,
\* whatever shouldThrow is.
C11_TryPlain ==
    (TryDone /\ ~FnRejected /\ ~Marked(heap, FnValue)) =>
       /\ ~last.thrown
       /\ IsSuccess(heap, last.val)
       /\ Get(heap, last.val, "value") = FnValue

\* tryResult, told to throw, has wrapped the 0 that fn resolved to.
C11_Witness ==
    /\ TryDone /\ ~FnRejected
    /\ FnValue = Num(0) /\ ShouldThrowArg = Bool(TRUE)
    /\ ~last.thrown

C14_TryCollapseOk ==
    (TryDone /\ ~FnRejected /\ Marked(heap, FnValue)
             /\ IsSuccess(heap, FnValue)) =>
       /\ ~last.thrown
       /\ IsSuccess(heap, last.val)
       /\ Get(heap, last.val, "value") = Get(heap, FnValue, "value")
       /\ Get(heap, last.val, "value") # FnValue
       /\ last.val # FnValue
       /\ last.val.n > last.pre
       /\ Len(heap) = last.pre + 1

\* tryResult, told to throw, has re-wrapped the ok(null) fn resolved to.
C14_Witness ==
    /\ TryDone /\ ~FnRejected /\ ShouldThrowArg = Bool(TRUE)
    /\ IsSuccess(heap, FnValue) /\ Get(heap, FnValue, "value") = Null
    /\ IsSuccess(heap, last.val) /\ last.val # FnValue

\* C15: when fn resolves (does not reject) to a failure Result err(e), e an
\* Error, the failure passes through: with shouldThrow false or omitted
\* tryResult resolves to a failure Result that carries e itself, and with
\* shouldThrow true it rejects with e.
C15_TryCollapseErr ==
    (TryDone /\ ~FnRejected /\ Marked(heap, FnValue)
             /\ IsFailure(heap, FnValue)
             /\ InstanceOfError(heap, Get(heap, FnValue, "error"))) =>
       LET e == Get(heap, FnValue, "error") IN
       /\ ShouldThrowArg \in {Undefined, Bool(FALSE)} =>
             /\ ~last.thrown
             /\ IsFailure(heap, last.val)
             /\ Get(heap, last.val, "error") = e
       /\ ShouldThrowArg = Bool(TRUE) =>
             /\ last.thrown
             /\ last.val = e
             /\ Len(heap) = last.pre

\* tryResult, told to throw, has rejected with the error of the failure
\* Result that fn resolved to.
C15_Witness ==
    /\ TryDone /\ ~FnRejected /\ ShouldThrowArg = Bool(TRUE)
    /\ IsFailure(heap, FnValue)
    /\ last.thrown /\ last.val = Get(heap, FnValue, "error")

\* The heap as the last call found it: the heap before, and the Error
\* written inline in the call (`new Error("e")` as an argument), if any.
ArgHeap ==
    IF \E i \in DOMAIN last.args :
          last.args[i].t = "object" /\ last.args[i].n = last.pre + 1
    THEN SubSeq(heap, 1, last.pre + 1)
    ELSE PreHeap

\* The last call ended as o does: same heap, same return or raise.
SameOutcome(o) ==
    /\ heap = o.h
    /\ last.thrown = o.thrown
    /\ last.val = o.val

\* What fn settled with in the last call of tryResult.
FnSettled ==
    IF FnRejected THEN Throw(ArgHeap, FnValue, <<>>)
    ELSE Return(ArgHeap, FnValue, <<>>)

\* C16: a call of tryResult with shouldThrow omitted ends as the same call
\* with shouldThrow false does (a rejection of fn becomes a failure Result);
\* a call of assert, assertOr or assertNotNil with shouldThrow omitted ends
\* as the same call with shouldThrow true does (a failed check raises).
C16_Defaults ==
    /\ (TryDone /\ ShouldThrowArg = Undefined) =>
          /\ SameOutcome(tryResult(ArgHeap, FnSettled, Bool(FALSE)))
          /\ Convertible(heap, FnValue) => ~last.thrown
    /\ (last.op = "assert" /\ last.args[3] = Undefined) =>
          /\ SameOutcome(assert(ArgHeap, last.args[1], last.args[2], Bool(TRUE)))
          /\ last.thrown <=> last.args[1] = Bool(FALSE)
    /\ (last.op = "assertOr" /\ last.args[3] = Undefined) =>
          /\ SameOutcome(assertOr(ArgHeap, last.args[1], last.args[2], Bool(TRUE)))
          /\ last.thrown <=> last.args[1] = Bool(FALSE)
    /\ (last.op = "assertNotNil" /\ last.args[3] = Undefined) =>
          /\ SameOutcome(assertNotNil(ArgHeap, last.args[1], last.args[2],
                                      Bool(TRUE)))
          /\ last.thrown <=> last.args[1] \in {Null, Undefined}

\* assertOr(false, error), shouldThrow omitted, has raised.
C16_Witness ==
    /\ last.op = "assertOr" /\ last.args[1] = Bool(FALSE)
    /\ last.args[3] = Undefined /\ last.thrown

\* C17: assert and assertOr with a false condition: with shouldThrow true
\* the call raises the error object it was given and returns nothing; with
\* shouldThrow false it returns a failure Result that wraps that same
\* object and does not raise; when assert is given no error, the error it
\* uses is an Error with message "Assertion failed".
C17_AssertFails ==
    (last.op \in {"assert", "assertOr"} /\ last.args[1] = Bool(FALSE)) =>
       LET given == last.args[2]
           used == IF last.thrown THEN last.val
                   ELSE Get(heap, last.val, "error")
       IN  /\ last.args[3] = Bool(TRUE) =>
                 /\ last.thrown
                 /\ Results(heap) = Results(PreHeap)
           /\ last.args[3] = Bool(FALSE) =>
                 /\ ~last.thrown
                 /\ IsFailure(heap, last.val)
           /\ given # Undefined => used = given
           /\ given = Undefined =>
                 /\ InstanceOfError(heap, used)
                 /\ Get(heap, used, "message") = Str("Assertion failed")

\* assertOr(false, error, false) has returned a failure that wraps error.
C17_Witness ==
    /\ last.op = "assertOr" /\ last.args[1] = Bool(FALSE)
    /\ last.args[3] = Bool(FALSE) /\ ~last.thrown
    /\ Get(heap, last.val, "error") = last.args[2]

\* C18: assert and assertOr with a true condition return a success Result
\* with payload true and do not raise, whatever error and shouldThrow are.
C18_AssertHolds ==
    (last.op \in {"assert", "assertOr"} /\ last.args[1] = Bool(TRUE)) =>
       /\ ~last.thrown
       /\ IsSuccess(heap, last.val)
       /\ Get(heap, last.val, "value") = Bool(TRUE)

\* assert(true, error, true) has returned ok(true).
C18_Witness ==
    /\ last.op = "assert" /\ last.args[1] = Bool(TRUE)
    /\ InstanceOfError(heap, last.args[2]) /\ last.args[3] = Bool(TRUE)
    /\ IsSuccess(heap, last.val)

\* C19: assertNotNil(v, message, shouldThrow) returns a success Result
\* whose payload is exactly v and does not raise, for every v that is
\* neither null nor undefined (0, false and "" included), whatever message
\* and shouldThrow are.
C19_NotNilPasses ==
    (last.op = "assertNotNil" /\ last.args[1] \notin {Null, Undefined}) =>
       /\ ~last.thrown
       /\ IsSuccess(heap, last.val)
       /\ Get(heap, last.val, "value") = last.args[1]
       /\ Errors(heap) = {}

\* assertNotNil("", "m", true) has returned ok("").
C19_Witness ==
    /\ last.op = "assertNotNil" /\ last.args = <<Str(""), Str("m"), Bool(TRUE)>>
    /\ IsSuccess(heap, last.val)

\* C20: assertNotNil of null or undefined builds an Error whose message is
\* the message given, or "Expected value to be non-null" when none is
\* given; with shouldThrow true or omitted it raises that Error, with
\* shouldThrow false it returns a failure Result that wraps it and does not
\* raise.
C20_NotNilFails ==
    (last.op = "assertNotNil" /\ last.args[1] \in {Null, Undefined}) =>
       LET built == IF last.thrown THEN last.val
                    ELSE Get(heap, last.val, "error")
       IN  /\ InstanceOfError(heap, built)
           /\ built.n > last.pre
           /\ Get(heap, built, "message") =
                 (IF last.args[2] = Undefined
                  THEN Str("Expected value to be non-null")
                  ELSE last.args[2])
           /\ last.args[3] \in {Bool(TRUE), Undefined} =>
                 /\ last.thrown
                 /\ Results(heap) = {}
           /\ last.args[3] = Bool(FALSE) =>
                 /\ ~last.thrown
                 /\ IsFailure(heap, last.val)

\* assertNotNil(null, "m", false) has returned a failure with message "m".
C20_Witness ==
    /\ last.op = "assertNotNil" /\ last.args = <<Null, Str("m"), Bool(FALSE)>>
    /\ IsFailure(heap, last.val)
    /\ Get(heap, Get(heap, last.val, "error"), "message") = Str("m")

\* C21: with shouldThrow true, when fn completes without throwing, what
\* the promise of tryResult resolves to is the value of fn itself; a Result
\* is returned only when shouldThrow is false.
C21_DirectValue ==
    (TryDone /\ ShouldThrowArg = Bool(TRUE) /\ ~FnRejected
             /\ ~Marked(heap, FnValue)) =>
       /\ ~last.thrown
       /\ last.val = FnValue
       /\ ~Marked(heap, last.val)

\* C22: assert, assertOr and assertNotNil, called with shouldThrow omitted,
\* return a Result: a failed check gives a failure Result (with the error
\* given) and does not raise, so that the caller can test `check.ok`.
C22_ReturnsByDefault ==
    /\ (last.op \in {"assert", "assertOr"} /\ last.args[2] # Undefined
           /\ last.args[3] = Undefined) =>
          /\ ~last.thrown
          /\ Marked(heap, last.val)
          /\ last.args[1] = Bool(FALSE) =>
                /\ IsFailure(heap, last.val)
                /\ Get(heap, last.val, "error") = last.args[2]
    /\ (last.op = "assertNotNil" /\ last.args[3] = Undefined) =>
          /\ ~last.thrown
          /\ Marked(heap, last.val)
          /\ last.args[1] \in {Null, Undefined} => IsFailure(heap, last.val)

\* C23: no operation modifies a Result it is given: every object of the
\* heap, and so the discriminant, the payload and the error of every
\* Result, is after each call what it was before, whatever the calls and
\* their order; map on a success and mapErr on a failure return a Result
\* built by the call, distinct from the one they were given.
C23_Immutable ==
    [][/\ Len(heap') >= Len(heap)
       /\ \A a \in 1..Len(heap) : heap'[a] = heap[a]
       /\ (last'.op = "map" /\ ~last'.thrown
              /\ IsSuccess(heap', last'.args[1])) =>
             /\ last'.val # last'.args[1]
             /\ last'.val.n > last'.pre
       /\ (last'.op = "mapErr" /\ ~last'.thrown
              /\ IsFailure(heap', last'.args[1])) =>
             /\ last'.val # last'.args[1]
             /\ last'.val.n > last'.pre]_vars

\* A second transformation has been applied in a pipeline, and it replaced
\* the error of a failure; the Result it was given still holds the old one.
C23_Witness ==
    /\ last.op = "mapErr" /\ ~last.thrown /\ chain.len = 2
    /\ IsFailure(heap, last.args[1])
    /\ Get(heap, last.val, "error") # Get(heap, last.args[1], "error")

\* C24: a call of tryResult invokes fn exactly once: it does not invoke it
\* again after a rejection; and its promise settles only after the promise
\* of fn has settled.
C24_OnceNoRetry ==
    [][/\ \A i \in DOMAIN tasks' : tasks'[i].calls = 1
       /\ \A i \in DOMAIN tasks :
             /\ tasks[i].fn = "rejected" => tasks'[i].fn # "pending"
             /\ (tasks[i].pc = "awaiting" /\ tasks'[i].pc # "awaiting")
                   => tasks[i].fn \in {"fulfilled", "rejected"}]_vars

\* fn was invoked once and rejected, and tryResult, told to throw, has
\* rejected in turn.
C24_Witness ==
    /\ Len(tasks) = 1 /\ tasks[1].pc = "rejected" /\ tasks[1].calls = 1
    /\ TryDone /\ FnRejected /\ last.thrown
    /\ last.pre = Len(heap)

\* C25: once the promise of fn has settled, the promise of tryResult
\* settles, and it settles once: resolved or rejected, it stays what it is;
\* as long as the promise of fn is pending, the promise of tryResult is
\* pending too (there is no timeout and no cancellation).
C25_Settles ==
    /\ \A i \in 1..MaxTasks :
          (i \in DOMAIN tasks /\ tasks[i].fn \in {"fulfilled", "rejected"})
             ~> (i \in DOMAIN tasks /\ tasks[i].pc \in {"resolved", "rejected"})
    /\ [][\A i \in DOMAIN tasks :
             /\ tasks[i].pc \in {"resolved", "rejected"}
                   => tasks'[i].pc = tasks[i].pc
             /\ (tasks[i].pc = "awaiting" /\ tasks[i].fn = "pending")
                   => tasks'[i].pc = "awaiting"]_vars

\* The promise of fn was fulfilled, with null, after the call had been
\* suspended, and the promise of tryResult has resolved.
C25_Witness ==
    /\ Len(tasks) = 1 /\ tasks[1].pc = "resolved"
    /\ TryDone /\ ~FnRejected /\ FnValue = Null
    /\ chain.cur = last.val

\* The outcome of a settled task is the one its own function and its own
\* shouldThrow call for.
OwnOutcome(t) ==
    LET rejects == t.pc = "rejected"
        out == t.out
        e == IF rejects THEN out ELSE Get(heap, out, "error")
    IN  IF t.fn = "rejected" \/ IsFailure(heap, t.fv)
        THEN /\ rejects <=> t.st = Bool(TRUE)
             /\ ~rejects => IsFailure(heap, out)
             /\ t.fn = "rejected" /\ InstanceOfError(heap, t.fv) => e = t.fv
             /\ t.fn = "rejected" /\ ~InstanceOfError(heap, t.fv) =>
                   /\ InstanceOfError(heap, e)
                   /\ Get(heap, e, "message") = Str(String(heap, t.fv))
             /\ t.fn = "fulfilled" => e = Get(heap, t.fv, "error")
        ELSE /\ ~rejects
             /\ IsSuccess(heap, out)
             /\ out # t.fv
             /\ Get(heap, out, "value") =
                   (IF IsSuccess(heap, t.fv) THEN Get(heap, t.fv, "value")
                    ELSE t.fv)

SettledTasks == {i \in DOMAIN tasks : tasks[i].pc \in {"resolved", "rejected"}}

\* C26: with several calls of tryResult pending at once, in every order
\* in which the functions settle and the calls resume, the outcome of each
\* call (resolved or rejected, variant, payload or error) is the one its
\* own function and its own shouldThrow give; two calls never share the
\* Result they resolve to, and no Result built for one call is held by
\* another.
C26_Independent ==
    /\ \A i \in SettledTasks : OwnOutcome(tasks[i])
    /\ \A i, j \in SettledTasks :
          (i # j /\ tasks[i].pc = "resolved" /\ tasks[j].pc = "resolved") =>
             /\ tasks[i].out # tasks[j].out
             /\ tasks[i].out # tasks[j].fv
    /\ \A i, j \in SettledTasks :
          (tasks[i].st = tasks[j].st /\ tasks[i].fn = tasks[j].fn
             /\ DeepEq(heap, tasks[i].fv, heap, tasks[j].fv)) =>
             /\ tasks[i].pc = tasks[j].pc
             /\ DeepEq(heap, tasks[i].out, heap, tasks[j].out)

\* Two calls were pending together; the call made second resumed first and
\* resolved to a failure, the call made first resolved to a success.
C26_Witness ==
    /\ Len(tasks) = 2
    /\ tasks[1].pc = "resolved" /\ tasks[2].pc = "resolved"
    /\ tasks[2].out.n < tasks[1].out.n
    /\ tasks[1].fv.n < tasks[2].fv.n
    /\ IsSuccess(heap, tasks[1].out) /\ IsFailure(heap, tasks[2].out)

\* C27: with shouldThrow false, tryResult is total: whatever fn does
\* (resolves to a plain value, a success Result or a failure Result, rejects
\* with an Error or with any other value, throws before it returns a
\* promise), the promise of tryResult resolves to a well-formed Result and
\* does not reject.
C27_Total ==
    (TryDone /\ ShouldThrowArg = Bool(FALSE)) =>
       /\ ~last.thrown
       /\ Marked(heap, last.val)
       /\ WellFormed(heap, last.val)

\* C28: tryResult is idempotent under nesting: with shouldThrow false or
\* omitted, tryResult(() => tryResult(fn)) resolves to a Result equal to
\* the Result r that tryResult(fn) resolved to: same variant, same payload,
\* the same error object; the payload is not r (no nesting).
C28_Idempotent ==
    (TryDone /\ last.fn = <<"tryResult">>
             /\ ShouldThrowArg \in {Undefined, Bool(FALSE)}) =>
       /\ ~last.thrown
       /\ SameResult(heap, last.val, FnValue)
       /\ Get(heap, last.val, "value") = Get(heap, FnValue, "value")
       /\ Get(heap, last.val, "error") = Get(heap, FnValue, "error")
       /\ Get(heap, last.val, "value") # FnValue

\* tryResult has re-wrapped the failure that an inner tryResult made of a
\* rejection: another Result, the same Error.
C28_Witness ==
    /\ TryDone /\ last.fn = <<"tryResult">> /\ ShouldThrowArg = Bool(FALSE)
    /\ IsFailure(heap, last.val) /\ last.val # FnValue
    /\ InstanceOfError(heap, Get(heap, last.val, "error"))
    /\ Get(heap, last.val, "error") = Get(heap, FnValue, "error")

\* C29: map and mapErr never change the variant: after any sequence of
\* map and mapErr calls applied to a Result r, the Result reached has the
\* discriminant of r; when r is a success every map call has invoked its
\* function and no mapErr call has, and when r is a failure every mapErr
\* call has invoked its function and no map call has.
C29_VariantKept ==
    Marked(heap, chain.root) =>
       /\ Get(heap, chain.cur, "ok") = Get(heap, chain.root, "ok")
       /\ IsSuccess(heap, chain.root) =>
             /\ chain.mapInv = chain.maps
             /\ chain.mapErrInv = 0
       /\ IsFailure(heap, chain.root) =>
             /\ chain.mapErrInv = chain.mapErrs
             /\ chain.mapInv = 0

\* A failure has gone through mapErr, which replaced its error, and then
\* through map.
C29_Witness ==
    /\ last.op = "map" /\ chain.maps = 1 /\ chain.mapErrs = 1
    /\ IsFailure(heap, chain.root) /\ IsFailure(heap, chain.cur)
    /\ chain.mapErrInv = 1 /\ chain.cur # chain.root

\* C30: map and mapErr commute: for every Result r and functions f and g
\* that do not raise, map(mapErr(r, g), f) and mapErr(map(r, f), g) are of
\* the same variant with equal payloads and equal errors: f(v) for a
\* success with payload v, g(e) for a failure with error e.
C30_Commute ==
    last.op = "map.mapErr" =>
       LET r == last.args[1]
           f == <<last.fn[2]>>
           g == <<last.fn[1]>>
       IN  /\ SameResult(heap, last.val, last.alt)
           /\ IsSuccess(heap, r) =>
                 /\ Get(heap, last.val, "value")
                       = Call(PreHeap, f, Get(heap, r, "value")).val
                 /\ Get(heap, last.alt, "value") = Get(heap, last.val, "value")
           /\ IsFailure(heap, r) =>
                 LET c == Call(PreHeap, g, Get(heap, r, "error"))
                 IN  /\ DeepEq(heap, Get(heap, last.val, "error"), c.h, c.val)
                     /\ DeepEq(heap, Get(heap, last.alt, "error"), c.h, c.val)

\* A failure has been taken through mapErr then map and through map then
\* mapErr, with an error function that builds a new error.
C30_Witness ==
    /\ last.op = "map.mapErr" /\ last.fn[1] = "enhance"
    /\ IsFailure(heap, last.args[1])
    /\ last.val # last.alt
    /\ Get(heap, Get(heap, last.alt, "error"), "message") = Str("Enhanced: e")

====
